---- MODULE Spec2Model ----
(***************************************************************************)
(* Model of the frontmatter parser, the annotation generator, the template *)
(* generation, the starter kit archive and the example files               *)
(* (cursor_docs_content.py) and the external structure-doc generation      *)
(* (llm.py).                                                               *)
(*                                                                         *)
(* A text is a sequence of symbols.  The symbols "-", "\n" and " " are the *)
(* characters dash, newline and space; ":" is the two characters colon and *)
(* space that separate a key from its value; every other symbol is a word  *)
(* (a run of characters holding no dash and no whitespace).  The marker    *)
(* "---" is three dash symbols, so that startswith, find and the slices of *)
(* parse_frontmatter work on positions as they do in the code.             *)
(***************************************************************************)
EXTENDS Integers, Sequences, FiniteSets, TLC

VARIABLES
    doc,        \* how the document under examination was written (its parts)
    content,    \* the document's raw text
    op,         \* the operation that ran last on the document
    ret,        \* what that operation returned (or raised)
    env,        \* os.environ: the two credential variables
    request,    \* the generation request of the current interaction
    pc,         \* where the current interaction stands
    calls,      \* the instructions sent to the collaborator in this interaction
    reply,      \* what the collaborator answered (or that it failed)
    syncRet,    \* what generate_project_structure_sync returned (or raised)
    structureDoc, \* the document the interaction ended with
    keysReport, \* what check_api_keys returned last
    tArgs,      \* the arguments of the latest call of generate_template_based_structure
    tRet,       \* the text that call returned
    tFirst,     \* the arguments and the text of the first such call
    catalog,    \* the module-level content catalog of cursor_docs_content.py
    clock,      \* the local time of the machine
    archive,    \* the archive generate_starter_kit_zip returned last
    firstArchive, \* the archive its first invocation returned
    shown,      \* what the last catalog getter returned
    fs,         \* the .cursor directories of the project root
    examples,   \* what load_example_files returned last
    sessions    \* the generation request of each of the concurrent callers

docVars == <<doc, content, op, ret>>
genVars == <<env, request, pc, calls, reply, syncRet, structureDoc, keysReport>>
tplVars == <<tArgs, tRet, tFirst>>
kitVars == <<catalog, clock, archive, firstArchive, shown>>
fsVars == <<fs, examples>>
concVars == <<sessions>>
vars == <<doc, content, op, ret, env, request, pc, calls, reply, syncRet, structureDoc,
          keysReport, tArgs, tRet, tFirst, catalog, clock, archive, firstArchive, shown,
          fs, examples, sessions>>

\* The longest body, in lines, of a document under examination.
MaxBodyLines == 2

\* The longest tech stack of a generation request.
MaxTech == 2

(***************************************************************************)
(* Python values                                                           *)
(***************************************************************************)
None == [kind |-> "none"]
PyStr(s) == [kind |-> "str", v |-> s]
PyBytes(entries) == [kind |-> "bytes", entries |-> entries]
PyBool(b) == [kind |-> "bool", v |-> b]
PyList(l) == [kind |-> "seq", v |-> l]
PyDict(m) == [kind |-> "map", v |-> m]

\* bool(value)
Truthy(x) ==
    CASE x.kind = "none" -> FALSE
      [] x.kind = "bool" -> x.v
      [] x.kind = "str" -> x.v /= <<>>
      [] x.kind = "seq" -> x.v /= <<>>
      [] x.kind = "map" -> DOMAIN x.v /= {}
      [] x.kind = "llm" -> TRUE

(***************************************************************************)
(* Python string operations, on sequences of symbols                       *)
(***************************************************************************)
MARKER == <<"-", "-", "-">>
NL == "\n"
SP == " "
COLON == ":"
Whitespace == {NL, SP}

Min(S) == CHOOSE x \in S : \A y \in S : x <= y
Max(S) == CHOOSE x \in S : \A y \in S : x >= y

\* s.startswith(p)
StartsWith(s, p) == Len(s) >= Len(p) /\ SubSeq(s, 1, Len(p)) = p

\* s.find(p, start): the lowest 0-based index >= start where p occurs, or -1
Find(s, p, start) ==
    LET hits == {i \in start..(Len(s) - Len(p)) : SubSeq(s, i + 1, i + Len(p)) = p}
    IN  IF hits = {} THEN -1 ELSE Min(hits)

\* s[a:b], 0-based, b excluded
Slice(s, a, b) == SubSeq(s, a + 1, b)

\* s.strip()
Strip(s) ==
    LET solid == {i \in 1..Len(s) : s[i] \notin Whitespace}
    IN  IF solid = {} THEN <<>> ELSE SubSeq(s, Min(solid), Max(solid))

\* the lines of s (split at newlines), blank lines dropped
RECURSIVE SplitLines(_)
SplitLines(s) ==
    IF s = <<>> THEN <<>>
    ELSE LET nl == Find(s, <<NL>>, 0)
             first == IF nl = -1 THEN s ELSE Slice(s, 0, nl)
             rest == IF nl = -1 THEN <<>> ELSE Slice(s, nl + 1, Len(s))
         IN  IF Strip(first) = <<>> THEN SplitLines(rest)
             ELSE <<first>> \o SplitLines(rest)

(***************************************************************************)
(* yaml.safe_load, on the YAML the documents of the model are written in:  *)
(* block mappings of "key: value" lines, plain scalars, the flow sequence  *)
(* [] and an unclosed flow mapping "{".                                    *)
(***************************************************************************)
Returned(v) == [raised |-> FALSE, exc |-> "", value |-> v]
Raised(e) == [raised |-> TRUE, exc |-> e, value |-> None]

Symbols(line) == {line[i] : i \in 1..Len(line)}

\* the value a plain scalar resolves to (YAML 1.1 core types)
ResolveScalar(text) ==
    IF text = <<>> THEN None
    ELSE IF text = <<"true">> THEN PyBool(TRUE)
    ELSE IF text = <<"false">> THEN PyBool(FALSE)
    ELSE IF text = <<"[]">> THEN PyList(<<>>)
    ELSE PyStr(text)

\* a line "key: value" of a block mapping
IsEntry(line) ==
    /\ Len(line) >= 2
    /\ line[2] = COLON
    /\ line[1] \notin {COLON, "-", "[]"}
    /\ COLON \notin Symbols(SubSeq(line, 3, Len(line)))

\* a line of a plain scalar
IsPlain(line) == COLON \notin Symbols(line) /\ "[]" \notin Symbols(line) /\ line[1] /= "-"

\* the lines of a multi-line plain scalar, folded: joined by single spaces
RECURSIVE Fold(_)
Fold(lines) ==
    IF Len(lines) = 1 THEN Strip(lines[1])
    ELSE Strip(lines[1]) \o <<SP>> \o Fold(Tail(lines))

yaml_safe_load(s) ==
    LET lines == SplitLines(s)
        n == Len(lines)
        keys == {lines[i][1] : i \in 1..n}
        \* a key written twice keeps its last value
        last(k) == lines[Max({i \in 1..n : lines[i][1] = k})]
    IN  IF n = 0 THEN Returned(None)
        ELSE IF \E i \in 1..n : "{" \in Symbols(lines[i]) THEN Raised("YAMLError")
        ELSE IF \A i \in 1..n : IsEntry(lines[i])
             THEN Returned(PyDict([k \in keys |->
                      ResolveScalar(SubSeq(last(k), 3, Len(last(k))))]))
        ELSE IF n = 1 /\ lines[1] = <<"[]">> THEN Returned(PyList(<<>>))
        ELSE IF \A i \in 1..n : IsPlain(lines[i])
             THEN Returned(IF n = 1 THEN ResolveScalar(lines[1]) ELSE PyStr(Fold(lines)))
        ELSE Raised("YAMLError")

(***************************************************************************)
(* parse_frontmatter and get_file_annotations                              *)
(***************************************************************************)
\* parse_frontmatter with the body left untrimmed
parse_frontmatter_untrimmed(text) ==
    IF ~StartsWith(text, MARKER) THEN Returned([fm |-> None, body |-> text])
    ELSE LET end_index == Find(text, MARKER, 3)
         IN  IF end_index = -1 THEN Returned([fm |-> None, body |-> text])
             ELSE LET frontmatter == yaml_safe_load(Strip(Slice(text, 3, end_index)))
                  IN  IF frontmatter.raised
                      THEN Returned([fm |-> None, body |-> text])
                      ELSE Returned([fm |-> frontmatter.value,
                                     body |-> Slice(text, end_index + 3, Len(text))])

\* parse_frontmatter searching the closing marker from the start of the text
parse_frontmatter_from_start(text) ==
    IF ~StartsWith(text, MARKER) THEN Returned([fm |-> None, body |-> text])
    ELSE LET end_index == Find(text, MARKER, 0)
             frontmatter == yaml_safe_load(Strip(Slice(text, 3, end_index)))
         IN  IF frontmatter.raised
             THEN Returned([fm |-> None, body |-> text])
             ELSE Returned([fm |-> frontmatter.value,
                            body |-> Strip(Slice(text, end_index + 3, Len(text)))])

\* parse_frontmatter answering a YAML error with the body after the markers
parse_frontmatter_error_body(text) ==
    IF ~StartsWith(text, MARKER) THEN Returned([fm |-> None, body |-> text])
    ELSE LET end_index == Find(text, MARKER, 3)
         IN  IF end_index = -1 THEN Returned([fm |-> None, body |-> text])
             ELSE LET frontmatter == yaml_safe_load(Strip(Slice(text, 3, end_index)))
                      body == Strip(Slice(text, end_index + 3, Len(text)))
                  IN  IF frontmatter.raised
                      THEN Returned([fm |-> None, body |-> body])
                      ELSE Returned([fm |-> frontmatter.value, body |-> body])

\* parse_frontmatter closing the header at the last marker of the text
parse_frontmatter_last_marker(text) ==
    IF ~StartsWith(text, MARKER) THEN Returned([fm |-> None, body |-> text])
    ELSE LET hits == {i \in 3..(Len(text) - 3) : SubSeq(text, i + 1, i + 3) = MARKER}
         IN  IF hits = {} THEN Returned([fm |-> None, body |-> text])
             ELSE LET end_index == Max(hits)
                      frontmatter == yaml_safe_load(Strip(Slice(text, 3, end_index)))
                      body == Strip(Slice(text, end_index + 3, Len(text)))
                  IN  IF frontmatter.raised
                      THEN Returned([fm |-> None, body |-> text])
                      ELSE Returned([fm |-> frontmatter.value, body |-> body])

parse_frontmatter(text) ==
    IF ~StartsWith(text, MARKER) THEN Returned([fm |-> None, body |-> text])
    ELSE LET end_index == Find(text, MARKER, 3)
         IN  IF end_index = -1 THEN Returned([fm |-> None, body |-> text])
             ELSE LET frontmatter_str == Strip(Slice(text, 3, end_index))
                      body == Strip(Slice(text, end_index + 3, Len(text)))
                      frontmatter == yaml_safe_load(frontmatter_str)
                  IN  IF frontmatter.raised
                      THEN IF frontmatter.exc = "YAMLError"
                           THEN Returned([fm |-> None, body |-> text])
                           ELSE frontmatter
                      ELSE Returned([fm |-> frontmatter.value, body |-> body])

RecognizedKeys == <<"description", "globs", "alwaysApply">>

Explanation(key) ==
    CASE key = "description" -> "Brief summary shown in Cursor's UI when browsing rules"
      [] key = "globs" -> "File patterns that trigger this rule (e.g., **/*.py matches all Python files)"
      [] key = "alwaysApply" -> "When true, rule is always active regardless of open files"

\* whether `key in x` is defined (x is a container)
Iterable(x) == x.kind \in {"str", "seq", "map"}

\* key in x
PyIn(key, x) ==
    CASE x.kind = "map" -> key \in DOMAIN x.v
      [] x.kind = "str" -> key \in Symbols(x.v)
      [] x.kind = "seq" -> \E i \in 1..Len(x.v) : x.v[i] = PyStr(<<key>>)

\* one `if key in frontmatter: annotations.append(...)` of get_file_annotations
AnnotateKey(acc, fm, key) ==
    IF acc.raised THEN acc
    ELSE IF ~Iterable(fm) THEN Raised("TypeError")
    ELSE IF ~PyIn(key, fm) THEN acc
    ELSE IF fm.kind /= "map" THEN Raised("TypeError")
    ELSE Returned(Append(acc.value,
             [field |-> key, value |-> fm.v[key], explanation |-> Explanation(key)]))

get_file_annotations(text) ==
    LET parsed == parse_frontmatter(text)
        none == [raised |-> FALSE, exc |-> "", value |-> <<>>]
    IN  IF parsed.raised THEN [raised |-> TRUE, exc |-> parsed.exc, value |-> <<>>]
        ELSE IF ~Truthy(parsed.value.fm) THEN none
        ELSE LET fm == parsed.value.fm
                 a1 == AnnotateKey(none, fm, RecognizedKeys[1])
                 a2 == AnnotateKey(a1, fm, RecognizedKeys[2])
                 a3 == AnnotateKey(a2, fm, RecognizedKeys[3])
             IN  [raised |-> a3.raised, exc |-> a3.exc,
                  value |-> IF a3.raised THEN <<>> ELSE a3.value]

(***************************************************************************)
(* The documents under examination.  A document is written as an optional  *)
(* opening marker line, header lines, an optional closing marker line and  *)
(* body lines, every line ended by a newline.  The header lines are        *)
(* "key: value" entries (at most one per key, the unrecognized key first   *)
(* and description last) and then at most one line that is no entry.       *)
(***************************************************************************)
DashedValue == <<"x", "-", "-", "-", "x">>

\* the values a header is written with, per key
EntryValues(key) ==
    CASE key = "description" -> {PyStr(<<"x">>), PyStr(DashedValue)}
      [] key = "globs" -> {PyList(<<>>)}
      [] key = "alwaysApply" -> {PyBool(TRUE)}
      [] key = "other" -> {PyStr(<<"x">>)}

\* a value as it is written in a header: a plain scalar, or the flow sequence []
YamlText(value) ==
    CASE value.kind = "str" -> value.v
      [] value.kind = "bool" -> IF value.v THEN <<"true">> ELSE <<"false">>
      [] value.kind = "seq" -> <<"[]">>

\* no entry for the key, or one entry
EntryChoices(key) == {<<>>} \cup {<<[key |-> key, val |-> v]>> : v \in EntryValues(key)}

EntryLists ==
    {a \o b \o c \o d : a \in EntryChoices("other"), b \in EntryChoices("alwaysApply"),
                        c \in EntryChoices("globs"), d \in EntryChoices("description")}

\* the line after the entries: none, a plain scalar, or an unclosed flow mapping
ExtraLines == {<<>>, <<"description">>, <<"true">>, <<"{">>}

BodyLineKinds == {MARKER, <<"x">>}

BodyLineLists == UNION {[1..n -> BodyLineKinds] : n \in 0..MaxBodyLines}

Documents ==
    [opening : BOOLEAN, entries : EntryLists, extra : ExtraLines,
     closing : BOOLEAN, bodyLines : BodyLineLists]

EntryText(e) == <<e.key, COLON>> \o YamlText(e.val)

RECURSIVE TextOfLines(_)
TextOfLines(lines) ==
    IF lines = <<>> THEN <<>> ELSE Head(lines) \o <<NL>> \o TextOfLines(Tail(lines))

HeaderText(d) ==
    TextOfLines([i \in 1..Len(d.entries) |-> EntryText(d.entries[i])])
        \o (IF d.extra = <<>> THEN <<>> ELSE d.extra \o <<NL>>)

BodyText(d) == TextOfLines(d.bodyLines)

RawText(d) ==
    (IF d.opening THEN MARKER \o <<NL>> ELSE <<>>)
        \o HeaderText(d)
        \o (IF d.closing THEN MARKER \o <<NL>> ELSE <<>>)
        \o BodyText(d)

NoRet == [raised |-> FALSE, exc |-> "", value |-> None]

(***************************************************************************)
(* generate_template_based_structure: PROJECT_STRUCTURE_TEMPLATE filled in *)
(***************************************************************************)
\* sep.join(items)
RECURSIVE Join(_, _)
Join(sep, items) ==
    IF items = <<>> THEN <<>>
    ELSE IF Len(items) = 1 THEN items[1]
    ELSE items[1] \o sep \o Join(sep, Tail(items))

\* the code fence of markdown (three backquotes)
FENCE == "fence"

TechBullet(tech) == <<"-", SP, "**">> \o tech \o <<"**">>

\* PROJECT_STRUCTURE_TEMPLATE.format(...): the template with its eight
\* placeholders filled in; the values are inserted as they are
PROJECT_STRUCTURE_TEMPLATE(description, project_name, overview, directory_tree, architecture, technologies, run_instructions, env_vars) ==
    MARKER \o <<NL>>
    \o <<"description", COLON>> \o description \o <<NL>>
    \o <<"globs", COLON, "[]", NL>>
    \o <<"alwaysApply", COLON, "true", NL>>
    \o MARKER \o <<NL>>
    \o <<NL, "# Project Structure", COLON>> \o project_name \o <<NL>>
    \o <<NL, "## Overview", NL, NL>> \o overview \o <<NL>>
    \o <<NL, "## Directory Layout", NL, NL, FENCE, NL>>
        \o directory_tree \o <<NL, FENCE, NL>>
    \o <<NL, "## Architecture", NL, NL>> \o architecture \o <<NL>>
    \o <<NL, "## Key Technologies", NL, NL>> \o technologies \o <<NL>>
    \o <<NL, "## Running the Application", NL, NL>> \o run_instructions \o <<NL>>
    \o <<NL, "## Environment Variables", NL, NL>> \o env_vars \o <<NL>>

RunInstructions == <<FENCE, "bash", NL, "# Add your run instructions here", NL, FENCE>>

EnvVarsHint == <<"-", SP, "Add your environment variables here">>

DescriptionFor(project_name) ==
    <<"Project structure and architecture overview for", SP>> \o project_name

\* generation that keeps the technologies of the call before it (a list
\* shared between calls)
generate_template_based_structure_accumulating(project_name, tech_stack, main_files, architecture_notes) ==
    LET all_tech == (IF tArgs = None THEN <<>> ELSE tArgs.tech_stack) \o tech_stack
    IN  PROJECT_STRUCTURE_TEMPLATE(
            DescriptionFor(project_name), project_name,
            <<"A project built with", SP>>
                \o (IF all_tech /= <<>> THEN Join(<<",", SP>>, all_tech)
                    ELSE <<"various technologies">>) \o <<".">>,
            IF main_files /= <<>> THEN main_files
            ELSE <<"src/", NL, "|__ main.py", NL, "|__ utils.py">>,
            IF architecture_notes /= <<>> THEN architecture_notes
            ELSE <<"Describe your architecture here.">>,
            IF all_tech /= <<>>
            THEN Join(<<NL>>, [i \in 1..Len(all_tech) |-> TechBullet(all_tech[i])])
            ELSE <<"-", SP, "Not specified">>,
            RunInstructions, EnvVarsHint)

\* generation that joins and lists the technologies without testing for an
\* empty list
generate_template_based_structure_no_tech_fallback(project_name, tech_stack, main_files, architecture_notes) ==
    PROJECT_STRUCTURE_TEMPLATE(
        DescriptionFor(project_name), project_name,
        <<"A project built with", SP>> \o Join(<<",", SP>>, tech_stack) \o <<".">>,
        IF main_files /= <<>> THEN main_files
        ELSE <<"src/", NL, "|__ main.py", NL, "|__ utils.py">>,
        IF architecture_notes /= <<>> THEN architecture_notes
        ELSE <<"Describe your architecture here.">>,
        Join(<<NL>>, [i \in 1..Len(tech_stack) |-> TechBullet(tech_stack[i])]),
        RunInstructions, EnvVarsHint)

\* generation that lists the technologies last first
generate_template_based_structure_reversed(project_name, tech_stack, main_files, architecture_notes) ==
    LET rev == [i \in 1..Len(tech_stack) |-> tech_stack[Len(tech_stack) + 1 - i]]
    IN  PROJECT_STRUCTURE_TEMPLATE(
            DescriptionFor(project_name), project_name,
            <<"A project built with", SP>>
                \o (IF tech_stack /= <<>> THEN Join(<<",", SP>>, tech_stack)
                    ELSE <<"various technologies">>) \o <<".">>,
            IF main_files /= <<>> THEN main_files
            ELSE <<"src/", NL, "|__ main.py", NL, "|__ utils.py">>,
            IF architecture_notes /= <<>> THEN architecture_notes
            ELSE <<"Describe your architecture here.">>,
            IF tech_stack /= <<>>
            THEN Join(<<NL>>, [i \in 1..Len(rev) |-> TechBullet(rev[i])])
            ELSE <<"-", SP, "Not specified">>,
            RunInstructions, EnvVarsHint)

\* generation that trims the directory listing and the architecture notes
generate_template_based_structure_trimming(project_name, tech_stack, main_files, architecture_notes) ==
    PROJECT_STRUCTURE_TEMPLATE(
        DescriptionFor(project_name), project_name,
        <<"A project built with", SP>>
            \o (IF tech_stack /= <<>> THEN Join(<<",", SP>>, tech_stack)
                ELSE <<"various technologies">>) \o <<".">>,
        IF Strip(main_files) /= <<>> THEN Strip(main_files)
        ELSE <<"src/", NL, "|__ main.py", NL, "|__ utils.py">>,
        IF Strip(architecture_notes) /= <<>> THEN Strip(architecture_notes)
        ELSE <<"Describe your architecture here.">>,
        IF tech_stack /= <<>>
        THEN Join(<<NL>>, [i \in 1..Len(tech_stack) |-> TechBullet(tech_stack[i])])
        ELSE <<"-", SP, "Not specified">>,
        RunInstructions, EnvVarsHint)

generate_template_based_structure(project_name, tech_stack, main_files, architecture_notes) ==
    LET tech_list ==
            IF tech_stack /= <<>>
            THEN Join(<<NL>>, [i \in 1..Len(tech_stack) |-> TechBullet(tech_stack[i])])
            ELSE <<"-", SP, "Not specified">>
        description == DescriptionFor(project_name)
        overview ==
            <<"A project built with", SP>>
                \o (IF tech_stack /= <<>> THEN Join(<<",", SP>>, tech_stack)
                    ELSE <<"various technologies">>)
                \o <<".">>
        directory_tree ==
            IF main_files /= <<>> THEN main_files
            ELSE <<"src/", NL, "|__ main.py", NL, "|__ utils.py">>
        architecture ==
            IF architecture_notes /= <<>> THEN architecture_notes
            ELSE <<"Describe your architecture here.">>
    IN  PROJECT_STRUCTURE_TEMPLATE(description, project_name, overview, directory_tree,
                                   architecture, tech_list, RunInstructions, EnvVarsHint)

(***************************************************************************)
(* llm.py: the text-generation collaborator                                *)
(***************************************************************************)
\* os.getenv of a credential variable: None when unset, else its value
EnvValues == {None, PyStr(<<>>), PyStr(<<"sk">>)}

Environments == [OPENAI_API_KEY : EnvValues, ANTHROPIC_API_KEY : EnvValues]

Providers == {"openai", "anthropic", "other"}

\* a chat model client
ChatModel(class, model, api_key) ==
    [kind |-> "llm", class |-> class, model |-> model, api_key |-> api_key]

\* get_llm with the other provider's credential used when the named one is missing
get_llm_substituting(provider) ==
    LET openai == ChatModel("ChatOpenAI", "gpt-4o-mini", env.OPENAI_API_KEY)
        anthropic == ChatModel("ChatAnthropic", "claude-3-5-sonnet-20241022",
                               env.ANTHROPIC_API_KEY)
    IN  IF provider = "openai"
        THEN IF Truthy(env.OPENAI_API_KEY) THEN openai
             ELSE IF Truthy(env.ANTHROPIC_API_KEY) THEN anthropic ELSE None
        ELSE IF provider = "anthropic"
        THEN IF Truthy(env.ANTHROPIC_API_KEY) THEN anthropic
             ELSE IF Truthy(env.OPENAI_API_KEY) THEN openai ELSE None
        ELSE None

get_llm(provider) ==
    IF provider = "openai"
    THEN LET api_key == env.OPENAI_API_KEY
         IN  IF ~Truthy(api_key) THEN None
             ELSE ChatModel("ChatOpenAI", "gpt-4o-mini", api_key)
    ELSE IF provider = "anthropic"
    THEN LET api_key == env.ANTHROPIC_API_KEY
         IN  IF ~Truthy(api_key) THEN None
             ELSE ChatModel("ChatAnthropic", "claude-3-5-sonnet-20241022", api_key)
    ELSE None

\* PROJECT_STRUCTURE_PROMPT with the four fields of the request filled in
Instruction(project_name, tech_stack, main_files, architecture_notes) ==
    [template |-> "PROJECT_STRUCTURE_PROMPT",
     project_name |-> project_name, tech_stack |-> tech_stack,
     main_files |-> main_files, architecture_notes |-> architecture_notes]

\* check_api_keys reporting whether the variables are set, empty or not
check_api_keys_set ==
    [openai |-> env.OPENAI_API_KEY /= None, anthropic |-> env.ANTHROPIC_API_KEY /= None]

check_api_keys ==
    [openai |-> Truthy(env.OPENAI_API_KEY), anthropic |-> Truthy(env.ANTHROPIC_API_KEY)]

(***************************************************************************)
(* The generation requests                                                 *)
(***************************************************************************)
ProjectNames == {<<"Foo">>}
Technologies == {<<"Python">>, <<"Go">>}
TechStacks == UNION {[1..n -> Technologies] : n \in 0..MaxTech}
MainFiles == {<<>>, <<"src/", NL, "|__ main.py">>}
ArchitectureNotes == {<<>>, <<"Monolith">>}
Replies == {PyStr(<<>>), PyStr(<<"# Generated">>)}

Requests ==
    [project_name : ProjectNames, tech_stack : TechStacks, main_files : MainFiles,
     architecture_notes : ArchitectureNotes, mode : {"external"}, provider : Providers]
    \cup
    [project_name : ProjectNames, tech_stack : TechStacks, main_files : MainFiles,
     architecture_notes : ArchitectureNotes, mode : {"template"}, provider : {""}]

NoRequest ==
    [project_name |-> <<>>, tech_stack |-> <<>>, main_files |-> <<>>,
     architecture_notes |-> <<>>, mode |-> "", provider |-> ""]

TemplateDoc(r) ==
    PyStr(generate_template_based_structure(
              r.project_name, r.tech_stack, r.main_files, r.architecture_notes))

\* the caller of external-mode generation keeping an empty reply as the document
StructureDocFor_no_empty_check(r, result) ==
    IF result.raised \/ result.value = None THEN TemplateDoc(r) ELSE result.value

\* The caller of external-mode generation: any failure (an exception, the
\* unavailable result None, an empty reply) falls back to template mode.
StructureDocFor(r, result) ==
    IF result.raised \/ ~Truthy(result.value) THEN TemplateDoc(r) ELSE result.value

(***************************************************************************)
(* The content catalog: GENERIC_COMMANDS and the starter kit tables.  A    *)
(* dict is the sequence of its items in insertion order.  Every long text  *)
(* is kept up to its first heading; what follows is one symbol.            *)
(***************************************************************************)
Item(k, v) == [key |-> k, value |-> v]

Keys(d) == [i \in 1..Len(d) |-> d[i].key]

HasKey(d, k) == \E i \in 1..Len(d) : d[i].key = k

\* d.get(k)
DictGet(d, k) ==
    IF HasKey(d, k) THEN d[CHOOSE i \in 1..Len(d) : d[i].key = k].value ELSE None

\* a command written with a header block, as a rule is
CommandContent_with_header(title, overview) ==
    MARKER \o <<NL, "description", COLON, overview, NL>> \o MARKER
        \o <<NL, NL, title, NL, NL, "## Overview", NL, overview, NL>>

CommandContent(title, overview) == <<title, NL, NL, "## Overview", NL, overview, NL>>

GENERIC_COMMANDS == <<
    Item("code-review-checklist", [name |-> "Code Review Checklist",
        description |-> "Comprehensive checklist for thorough code reviews",
        content |-> CommandContent("# Code Review Checklist", "instructions of Code Review Checklist")]),
    Item("write-tests", [name |-> "Write Tests",
        description |-> "Generate comprehensive tests for selected code",
        content |-> CommandContent("# Write Tests", "instructions of Write Tests")]),
    Item("security-audit", [name |-> "Security Audit",
        description |-> "Comprehensive security review of the codebase",
        content |-> CommandContent("# Security Audit", "instructions of Security Audit")]),
    Item("create-pr", [name |-> "Create PR Description",
        description |-> "Generate a well-structured pull request description",
        content |-> CommandContent("# Create PR Description", "instructions of Create PR Description")]),
    Item("debug", [name |-> "Debug Assistant",
        description |-> "Systematic debugging help for issues",
        content |-> CommandContent("# Debug Assistant", "instructions of Debug Assistant")]),
    Item("refactor", [name |-> "Refactor Suggestions",
        description |-> "Analyze code and suggest refactoring improvements",
        content |-> CommandContent("# Refactor Suggestions", "instructions of Refactor Suggestions")]),
    Item("document", [name |-> "Generate Documentation",
        description |-> "Generate documentation for code",
        content |-> CommandContent("# Generate Documentation", "instructions of Generate Documentation")]),
    Item("explain", [name |-> "Explain Code",
        description |-> "Get a detailed explanation of complex code",
        content |-> CommandContent("# Explain Code", "instructions of Explain Code")]),
    Item("optimize", [name |-> "Optimize Performance",
        description |-> "Analyze and suggest performance optimizations",
        content |-> CommandContent("# Optimize Performance", "instructions of Optimize Performance")]),
    Item("commit", [name |-> "Generate Commit Message",
        description |-> "Generate a conventional commit message",
        content |-> CommandContent("# Generate Commit Message", "instructions of Generate Commit Message")]),
    Item("sync-docs", [name |-> "Sync Documentation",
        description |-> "Update README.md and project-structure.md together",
        content |-> CommandContent("# Sync Documentation", "instructions of Sync Documentation")])>>

\* a rule file of the kit: its header lines between two markers, then its text
RuleContent(description, globs, alwaysApply, title) ==
    MARKER \o <<NL, "description", COLON, description, NL>>
    \o globs
    \o <<"alwaysApply", COLON, alwaysApply, NL>>
    \o MARKER \o <<NL, NL, title, NL, NL, "text of the rule", NL>>

\* "globs: []" and "globs:" followed by the lines of a block sequence
NoGlobs == <<"globs", COLON, "[]", NL>>

GlobsBlock(patterns) ==
    <<"globs:", NL>>
    \o Join(<<>>, [i \in 1..Len(patterns) |-> <<SP, SP, "-", SP, patterns[i], NL>>])

STARTER_KIT_RULES == <<
    Item(<<"cursor-rules", ".md">>, RuleContent("Guidelines for writing effective Cursor rules",
        GlobsBlock(<<".cursor/rules/*">>), "false", "# Cursor Rules Best Practices")),
    Item(<<"project-structure", ".md">>, RuleContent("Project structure and architecture overview",
        NoGlobs, "true", "# Project Structure")),
    Item(<<"coding-standards", ".md">>, RuleContent("Coding standards and conventions for this project",
        NoGlobs, "true", "# Coding Standards")),
    Item(<<"git-conventions", ".md">>, RuleContent("Git commit and branching conventions",
        GlobsBlock(<<".git/**", "*.md">>), "false", "# Git Conventions")),
    Item(<<"rule-self-improvement", ".md">>, RuleContent("Guidelines for continuously improving Cursor rules",
        GlobsBlock(<<".cursor/rules/*">>), "false", "# Rule Self-Improvement Guidelines"))>>


\* the kit's command files: ten of the generic commands, by slug
STARTER_KIT_COMMANDS_by_description ==
    LET slugs == <<"code-review-checklist", "write-tests", "debug", "explain", "refactor",
                   "security-audit", "commit", "create-pr", "document", "optimize">>
    IN  [i \in 1..Len(slugs) |->
            Item(<<slugs[i], ".md">>, <<DictGet(GENERIC_COMMANDS, slugs[i]).description>>)]

STARTER_KIT_COMMANDS == <<
    Item(<<"code-review-checklist", ".md">>, DictGet(GENERIC_COMMANDS, "code-review-checklist").content),
    Item(<<"write-tests", ".md">>, DictGet(GENERIC_COMMANDS, "write-tests").content),
    Item(<<"debug", ".md">>, DictGet(GENERIC_COMMANDS, "debug").content),
    Item(<<"explain", ".md">>, DictGet(GENERIC_COMMANDS, "explain").content),
    Item(<<"refactor", ".md">>, DictGet(GENERIC_COMMANDS, "refactor").content),
    Item(<<"security-audit", ".md">>, DictGet(GENERIC_COMMANDS, "security-audit").content),
    Item(<<"commit", ".md">>, DictGet(GENERIC_COMMANDS, "commit").content),
    Item(<<"create-pr", ".md">>, DictGet(GENERIC_COMMANDS, "create-pr").content),
    Item(<<"document", ".md">>, DictGet(GENERIC_COMMANDS, "document").content),
    Item(<<"optimize", ".md">>, DictGet(GENERIC_COMMANDS, "optimize").content)>>

STARTER_KIT_AGENTS_MD == <<"# AGENTS.md", NL, NL, "text of the agent guidance", NL>>

STARTER_KIT_README == <<"# Cursor Starter Kit", NL, NL, "text of the readme", NL>>

\* the module's globals once it is loaded
Catalog ==
    [GENERIC_COMMANDS |-> GENERIC_COMMANDS,
     STARTER_KIT_RULES |-> STARTER_KIT_RULES,
     STARTER_KIT_COMMANDS |-> STARTER_KIT_COMMANDS,
     STARTER_KIT_AGENTS_MD |-> STARTER_KIT_AGENTS_MD,
     STARTER_KIT_README |-> STARTER_KIT_README]

(***************************************************************************)
(* generate_starter_kit_zip.  The archive is the sequence of its entries:  *)
(* each has its path, its decompressed content and the modification time   *)
(* ZipFile.writestr stamps it with, which is the local time of the call.   *)
(* A path is a text too: "/" and the suffix ".md" are symbols.             *)
(***************************************************************************)
\* the latest value of the clock
MaxClock == 2

KitRoot == <<"cursor-starter-kit", "/">>

\* zf.writestr(arcname, data) at local time now
writestr(zf, arcname, data, now) ==
    Append(zf, [filename |-> arcname, data |-> data, date_time |-> now])

RECURSIVE WriteAll(_, _, _, _)
\* for filename, content in items: zf.writestr(prefix + filename, content)
WriteAll(zf, prefix, items, now) ==
    IF items = <<>> THEN zf
    ELSE WriteAll(writestr(zf, prefix \o items[1].key, items[1].value, now),
                  prefix, Tail(items), now)

\* the archive without its README.md
generate_starter_kit_zip_no_readme ==
    LET rules == WriteAll(<<>>, KitRoot \o <<".cursor", "/", "rules", "/">>,
                          catalog.STARTER_KIT_RULES, clock)
        commands == WriteAll(rules, KitRoot \o <<".cursor", "/", "commands", "/">>,
                             catalog.STARTER_KIT_COMMANDS, clock)
    IN  writestr(commands, KitRoot \o <<"AGENTS", ".md">>,
                 catalog.STARTER_KIT_AGENTS_MD, clock)

\* the archive of a generator that takes the rules out of their table while
\* it writes them: only the first archive holds them
generate_starter_kit_zip_consuming ==
    LET rules == IF archive = None
                 THEN WriteAll(<<>>, KitRoot \o <<".cursor", "/", "rules", "/">>,
                               catalog.STARTER_KIT_RULES, clock)
                 ELSE <<>>
        commands == WriteAll(rules, KitRoot \o <<".cursor", "/", "commands", "/">>,
                             catalog.STARTER_KIT_COMMANDS, clock)
        agents == writestr(commands, KitRoot \o <<"AGENTS", ".md">>,
                           catalog.STARTER_KIT_AGENTS_MD, clock)
    IN  writestr(agents, KitRoot \o <<"README", ".md">>, catalog.STARTER_KIT_README, clock)

generate_starter_kit_zip ==
    LET rules == WriteAll(<<>>, KitRoot \o <<".cursor", "/", "rules", "/">>,
                          catalog.STARTER_KIT_RULES, clock)
        commands == WriteAll(rules, KitRoot \o <<".cursor", "/", "commands", "/">>,
                             catalog.STARTER_KIT_COMMANDS, clock)
        agents == writestr(commands, KitRoot \o <<"AGENTS", ".md">>,
                           catalog.STARTER_KIT_AGENTS_MD, clock)
    IN  writestr(agents, KitRoot \o <<"README", ".md">>, catalog.STARTER_KIT_README, clock)

\* the kit shown with every generic command as a command file
get_starter_kit_contents_every_command ==
    [rules |-> catalog.STARTER_KIT_RULES,
     commands |-> [i \in 1..Len(catalog.GENERIC_COMMANDS) |->
                      Item(<<catalog.GENERIC_COMMANDS[i].key, ".md">>,
                           catalog.GENERIC_COMMANDS[i].value.content)],
     agents_md |-> catalog.STARTER_KIT_AGENTS_MD, readme |-> catalog.STARTER_KIT_README]

get_starter_kit_contents ==
    [rules |-> catalog.STARTER_KIT_RULES, commands |-> catalog.STARTER_KIT_COMMANDS,
     agents_md |-> catalog.STARTER_KIT_AGENTS_MD, readme |-> catalog.STARTER_KIT_README]

get_generic_commands == catalog.GENERIC_COMMANDS

get_generic_command(name) == DictGet(catalog.GENERIC_COMMANDS, name)

\* the names a command is looked up by
CommandNames == {GENERIC_COMMANDS[i].key : i \in 1..Len(GENERIC_COMMANDS)} \cup {"unknown"}

\* the command documents of the catalog: the content of every generic
\* command and every command file of the kit
CommandDocuments ==
    {[source |-> "GENERIC_COMMANDS", key |-> <<catalog.GENERIC_COMMANDS[i].key>>,
      text |-> catalog.GENERIC_COMMANDS[i].value.content] :
        i \in 1..Len(catalog.GENERIC_COMMANDS)}
    \cup
    {[source |-> "STARTER_KIT_COMMANDS", key |-> catalog.STARTER_KIT_COMMANDS[i].key,
      text |-> catalog.STARTER_KIT_COMMANDS[i].value] :
        i \in 1..Len(catalog.STARTER_KIT_COMMANDS)}

(***************************************************************************)
(* load_example_files.  Each of the directories .cursor/rules and          *)
(* .cursor/commands of the project root is missing or holds regular text   *)
(* files; a file name is its stem and its suffix.                          *)
(***************************************************************************)
FileNames == {<<"a", ".md">>, <<"b", ".md">>, <<"notes", ".txt">>}

FileTexts == {<<"x">>, MARKER \o <<NL, "x">>}

MissingDir == [exists |-> FALSE, files |-> <<>>]

DirStates ==
    {MissingDir}
    \cup {[exists |-> TRUE, files |-> f] :
            f \in UNION {[S -> FileTexts] : S \in SUBSET FileNames}}

\* dir.glob("*.md")
GlobMd(dir) == {n \in DOMAIN dir.files : n[Len(n)] = ".md"}

\* the files read without testing that the directory exists
load_example_files_unguarded ==
    LET read(dir) == [n \in GlobMd(dir) |-> dir.files[n]]
    IN  IF ~fs.rules.exists \/ ~fs.commands.exists
        THEN Raised("FileNotFoundError")
        ELSE Returned([rules |-> read(fs.rules), commands |-> read(fs.commands)])

load_example_files ==
    LET read(dir) == IF dir.exists THEN [n \in GlobMd(dir) |-> dir.files[n]] ELSE <<>>
    IN  Returned([rules |-> read(fs.rules), commands |-> read(fs.commands)])

(***************************************************************************)
(* The parts of the state an operation of another component leaves alone   *)
(***************************************************************************)
TplIdle ==
    /\ tArgs = None
    /\ tRet = None
    /\ tFirst = None

KitIdle ==
    /\ catalog = Catalog
    /\ clock = 0
    /\ archive = None
    /\ firstArchive = None
    /\ shown = None

ConcIdle == sessions = <<>>

FsIdle ==
    /\ fs = [rules |-> MissingDir, commands |-> MissingDir]
    /\ examples = NoRet

(***************************************************************************)
(* The state machine of the document operations                            *)
(***************************************************************************)
GenIdle ==
    /\ request = NoRequest
    /\ pc = "idle"
    /\ calls = <<>>
    /\ reply = NoRet
    /\ syncRet = NoRet
    /\ structureDoc = None
    /\ keysReport = None

Init ==
    /\ doc \in Documents
    /\ content = RawText(doc)
    /\ op = "none"
    /\ ret = NoRet
    /\ env = [OPENAI_API_KEY |-> None, ANTHROPIC_API_KEY |-> None]
    /\ GenIdle
    /\ TplIdle
    /\ ConcIdle
    /\ KitIdle
    /\ FsIdle

ParseFrontmatter ==
    /\ op' = "parse_frontmatter"
    /\ ret' = parse_frontmatter(content)
    /\ UNCHANGED <<doc, content>>
    /\ UNCHANGED genVars
    /\ UNCHANGED <<tplVars, kitVars, fsVars, concVars>>

GetFileAnnotations ==
    /\ op' = "get_file_annotations"
    /\ ret' = get_file_annotations(content)
    /\ UNCHANGED <<doc, content>>
    /\ UNCHANGED genVars
    /\ UNCHANGED <<tplVars, kitVars, fsVars, concVars>>

Next == ParseFrontmatter \/ GetFileAnnotations

Spec == Init /\ [][Next]_vars

(***************************************************************************)
(* The state machine of the generation requests.  An interaction is one    *)
(* request: in template mode it ends at once; in external mode             *)
(* generate_project_structure_sync either returns None (no client) or      *)
(* blocks in chain.invoke until the collaborator replies or fails.         *)
(***************************************************************************)
GenInit ==
    /\ doc = [opening |-> FALSE, entries |-> <<>>, extra |-> <<>>,
              closing |-> FALSE, bodyLines |-> <<>>]
    /\ content = RawText(doc)
    /\ op = "none"
    /\ ret = NoRet
    /\ env \in Environments
    /\ GenIdle
    /\ TplIdle
    /\ ConcIdle
    /\ KitIdle
    /\ FsIdle

\* generate_project_structure_sync up to chain.invoke, and the template mode
Generate ==
    /\ pc = "idle"
    /\ \E r \in Requests :
        /\ request' = r
        /\ IF r.mode = "template"
           THEN /\ calls' = <<>>
                /\ syncRet' = NoRet
                /\ structureDoc' = TemplateDoc(r)
                /\ pc' = "done"
           ELSE LET llm == get_llm(r.provider)
                IN  IF ~Truthy(llm)
                    THEN /\ calls' = <<>>
                         /\ syncRet' = Returned(None)
                         /\ structureDoc' = StructureDocFor(r, Returned(None))
                         /\ pc' = "done"
                    ELSE /\ calls' = <<[llm |-> llm,
                                        instruction |-> Instruction(r.project_name,
                                            r.tech_stack, r.main_files,
                                            r.architecture_notes)]>>
                         /\ syncRet' = NoRet
                         /\ structureDoc' = None
                         /\ pc' = "waiting"
    /\ reply' = NoRet
    /\ UNCHANGED <<env, keysReport>>
    /\ UNCHANGED docVars
    /\ UNCHANGED <<tplVars, kitVars, fsVars, concVars>>

\* chain.invoke returns the collaborator's text
CollaboratorReplies ==
    /\ pc = "waiting"
    /\ \E text \in Replies :
        /\ reply' = Returned(text)
        /\ syncRet' = Returned(text)
        /\ structureDoc' = StructureDocFor(request, Returned(text))
    /\ pc' = "done"
    /\ UNCHANGED <<env, request, calls, keysReport>>
    /\ UNCHANGED docVars
    /\ UNCHANGED <<tplVars, kitVars, fsVars, concVars>>

\* a failed call sending the instruction once more
CollaboratorFails_retrying ==
    /\ pc = "waiting"
    /\ reply' = Raised("Exception")
    /\ IF Len(calls) < 2
       THEN /\ calls' = Append(calls, calls[1])
            /\ UNCHANGED <<pc, syncRet, structureDoc>>
       ELSE /\ syncRet' = Raised("Exception")
            /\ structureDoc' = StructureDocFor(request, Raised("Exception"))
            /\ pc' = "done"
            /\ UNCHANGED calls
    /\ UNCHANGED <<env, request, keysReport>>
    /\ UNCHANGED docVars
    /\ UNCHANGED <<tplVars, kitVars, fsVars, concVars>>

\* chain.invoke raises (network error, provider error)
CollaboratorFails ==
    /\ pc = "waiting"
    /\ reply' = Raised("Exception")
    /\ syncRet' = Raised("Exception")
    /\ structureDoc' = StructureDocFor(request, Raised("Exception"))
    /\ pc' = "done"
    /\ UNCHANGED <<env, request, calls, keysReport>>
    /\ UNCHANGED docVars
    /\ UNCHANGED <<tplVars, kitVars, fsVars, concVars>>

\* the interaction is over; the next request supersedes the document
NextInteraction ==
    /\ pc = "done"
    /\ request' = NoRequest
    /\ pc' = "idle"
    /\ calls' = <<>>
    /\ reply' = NoRet
    /\ syncRet' = NoRet
    /\ structureDoc' = None
    /\ UNCHANGED <<env, keysReport>>
    /\ UNCHANGED docVars
    /\ UNCHANGED <<tplVars, kitVars, fsVars, concVars>>

CheckApiKeys ==
    /\ pc /= "waiting"
    /\ keysReport' = check_api_keys
    /\ UNCHANGED <<env, request, pc, calls, reply, syncRet, structureDoc>>
    /\ UNCHANGED docVars
    /\ UNCHANGED <<tplVars, kitVars, fsVars, concVars>>

GenNext ==
    \/ Generate
    \/ CollaboratorReplies
    \/ CollaboratorFails
    \/ NextInteraction
    \/ CheckApiKeys

GenSpec == GenInit /\ [][GenNext]_vars

\* The same machine with a collaborator that answers every call in the end,
\* with a reply or with a failure.  The code itself sets no timeout and never
\* cancels: chain.invoke blocks until one of the two happens.
GenFairSpec == GenSpec /\ WF_vars(CollaboratorReplies \/ CollaboratorFails)

(***************************************************************************)
(* The state machine of the template calls: generate_template_based_       *)
(* structure called again and again, with any arguments.  tFirst keeps the *)
(* first call and remembers whether a call with other arguments came       *)
(* after it.                                                               *)
(***************************************************************************)
NoDocument ==
    /\ doc = [opening |-> FALSE, entries |-> <<>>, extra |-> <<>>,
              closing |-> FALSE, bodyLines |-> <<>>]
    /\ content = RawText(doc)
    /\ op = "none"
    /\ ret = NoRet

NoCredentials == env = [OPENAI_API_KEY |-> None, ANTHROPIC_API_KEY |-> None]

\* a directory listing is inserted with its leading and trailing whitespace
TemplateMainFiles == {<<>>, <<SP, SP, "src/", NL, "|__ main.py", NL>>}

\* project names that hold a colon and a space ("Foo: bar") or three dashes
\* ("Foo---x")
SpecialProjectNames == {<<"Foo", COLON, "bar">>, <<"Foo", "-", "-", "-", "x">>}

\* the calls made: every combination of the fields under a project name,
\* every tech stack under a name left empty, and the special names
TemplateArgs ==
    [project_name : ProjectNames, tech_stack : TechStacks,
     main_files : TemplateMainFiles, architecture_notes : ArchitectureNotes]
    \cup
    [project_name : {<<>>}, tech_stack : TechStacks,
     main_files : {<<>>}, architecture_notes : {<<>>}]
    \cup
    [project_name : SpecialProjectNames, tech_stack : {<<>>},
     main_files : {<<>>}, architecture_notes : {<<>>}]

TemplateInit ==
    /\ NoDocument
    /\ NoCredentials
    /\ GenIdle
    /\ TplIdle
    /\ ConcIdle
    /\ KitIdle
    /\ FsIdle

CallTemplate ==
    \E a \in TemplateArgs :
        LET text == generate_template_based_structure(
                        a.project_name, a.tech_stack, a.main_files, a.architecture_notes)
        IN  /\ tArgs' = a
            /\ tRet' = PyStr(text)
            /\ tFirst' = IF tFirst = None
                         THEN [args |-> a, text |-> text, between |-> FALSE]
                         ELSE [tFirst EXCEPT !.between = @ \/ a /= tFirst.args]
            /\ UNCHANGED <<docVars, genVars, kitVars, fsVars, concVars>>

TemplateNext == CallTemplate

TemplateSpec == TemplateInit /\ [][TemplateNext]_vars

(***************************************************************************)
(* The state machine of the starter kit: the archive is generated at any   *)
(* time, the clock advances, and the catalog getters are called.           *)
(***************************************************************************)
KitInit ==
    /\ NoDocument
    /\ NoCredentials
    /\ GenIdle
    /\ TplIdle
    /\ ConcIdle
    /\ KitIdle
    /\ FsIdle

GenerateStarterKitZip ==
    LET blob == PyBytes(generate_starter_kit_zip)
    IN  /\ archive' = blob
        /\ firstArchive' = IF firstArchive = None THEN blob ELSE firstArchive
        /\ UNCHANGED <<catalog, clock, shown>>
        /\ UNCHANGED <<docVars, genVars, tplVars, fsVars, concVars>>

Tick ==
    /\ clock < MaxClock
    /\ clock' = clock + 1
    /\ UNCHANGED <<catalog, archive, firstArchive, shown>>
    /\ UNCHANGED <<docVars, genVars, tplVars, fsVars, concVars>>

GetStarterKitContents ==
    /\ shown' = [getter |-> "get_starter_kit_contents", name |-> "",
                 value |-> get_starter_kit_contents]
    /\ UNCHANGED <<catalog, clock, archive, firstArchive>>
    /\ UNCHANGED <<docVars, genVars, tplVars, fsVars, concVars>>

GetGenericCommands ==
    /\ shown' = [getter |-> "get_generic_commands", name |-> "",
                 value |-> get_generic_commands]
    /\ UNCHANGED <<catalog, clock, archive, firstArchive>>
    /\ UNCHANGED <<docVars, genVars, tplVars, fsVars, concVars>>

\* a getter that takes the record out of the table (pop in place of get)
GetGenericCommand_removing ==
    \E name \in CommandNames :
        /\ shown' = [getter |-> "get_generic_command", name |-> name,
                     value |-> get_generic_command(name)]
        /\ catalog' = [catalog EXCEPT !.GENERIC_COMMANDS =
                          SelectSeq(@, LAMBDA item : item.key /= name)]
        /\ UNCHANGED <<clock, archive, firstArchive>>
        /\ UNCHANGED <<docVars, genVars, tplVars, fsVars, concVars>>

GetGenericCommand ==
    \E name \in CommandNames :
        /\ shown' = [getter |-> "get_generic_command", name |-> name,
                     value |-> get_generic_command(name)]
        /\ UNCHANGED <<catalog, clock, archive, firstArchive>>
        /\ UNCHANGED <<docVars, genVars, tplVars, fsVars, concVars>>

\* parse_frontmatter applied to a command document of the catalog
ParseCommand ==
    \E d \in CommandDocuments :
        /\ doc' = [source |-> d.source, key |-> d.key]
        /\ content' = d.text
        /\ op' = "parse_frontmatter"
        /\ ret' = parse_frontmatter(d.text)
        /\ UNCHANGED <<genVars, tplVars, kitVars, fsVars, concVars>>

\* the commands tab of the app: it lists the keys of the generic commands as
\* the commands included in the kit and offers the archive for download
TabCommandsBulkDownload ==
    LET generic_commands == get_generic_commands
        blob == PyBytes(generate_starter_kit_zip)
    IN  /\ shown' = [getter |-> "tab_commands", name |-> "",
                     value |-> Keys(generic_commands)]
        /\ archive' = blob
        /\ firstArchive' = IF firstArchive = None THEN blob ELSE firstArchive
        /\ UNCHANGED <<catalog, clock>>
        /\ UNCHANGED <<docVars, genVars, tplVars, fsVars, concVars>>

KitNext ==
    \/ GenerateStarterKitZip
    \/ Tick
    \/ GetStarterKitContents
    \/ GetGenericCommands
    \/ GetGenericCommand
    \/ ParseCommand
    \/ TabCommandsBulkDownload

KitSpec == KitInit /\ [][KitNext]_vars

(***************************************************************************)
(* The state machine of the example files: the two directories are as the  *)
(* project has them, and load_example_files reads them.                    *)
(***************************************************************************)
FsInit ==
    /\ NoDocument
    /\ NoCredentials
    /\ GenIdle
    /\ TplIdle
    /\ ConcIdle
    /\ KitIdle
    /\ fs \in [rules : DirStates, commands : DirStates]
    /\ examples = NoRet

LoadExampleFiles ==
    /\ examples' = load_example_files
    /\ UNCHANGED fs
    /\ UNCHANGED <<docVars, genVars, tplVars, kitVars, concVars>>

FsNext == LoadExampleFiles

FsSpec == FsInit /\ [][FsNext]_vars

(***************************************************************************)
(* The state machine of the whole module: the operations of all the        *)
(* components in one process, in any order, each on a few inputs.          *)
(***************************************************************************)
ModuleDocuments ==
    {[opening |-> FALSE, entries |-> <<>>, extra |-> <<>>,
      closing |-> FALSE, bodyLines |-> <<<<"x">>>>],
     [opening |-> TRUE, entries |-> <<>>, extra |-> <<"description">>,
      closing |-> TRUE, bodyLines |-> <<MARKER>>]}

ModuleTemplateArgs ==
    {a \in TemplateArgs :
        /\ a.project_name = <<"Foo">>
        /\ Len(a.tech_stack) = MaxTech
        /\ \A i \in 1..Len(a.tech_stack) : a.tech_stack[i] = <<"Go">>
        /\ a.main_files = <<>>}

ModuleRequests ==
    {r \in Requests :
        /\ r.tech_stack = <<>>
        /\ r.main_files = <<>>
        /\ r.architecture_notes = <<"Monolith">>
        /\ r.provider \in {"", "openai"}}

ModuleInit ==
    /\ doc \in ModuleDocuments
    /\ content = RawText(doc)
    /\ op = "none"
    /\ ret = NoRet
    /\ env = [OPENAI_API_KEY |-> PyStr(<<"sk">>), ANTHROPIC_API_KEY |-> None]
    /\ GenIdle
    /\ TplIdle
    /\ ConcIdle
    /\ KitIdle
    /\ FsIdle

ModuleCallTemplate ==
    /\ tArgs' \in ModuleTemplateArgs
    /\ CallTemplate

ModuleGenerate ==
    /\ request' \in ModuleRequests
    /\ Generate

ModuleGetGenericCommand ==
    /\ GetGenericCommand
    /\ shown'.name \in {"debug", "unknown"}

ModuleNext ==
    \/ ParseFrontmatter
    \/ GetFileAnnotations
    \/ ModuleCallTemplate
    \/ GenerateStarterKitZip
    \/ GetStarterKitContents
    \/ GetGenericCommands
    \/ ModuleGetGenericCommand
    \/ ModuleGenerate
    \/ CollaboratorReplies
    \/ CollaboratorFails
    \/ NextInteraction
    \/ CheckApiKeys

ModuleSpec == ModuleInit /\ [][ModuleNext]_vars

(***************************************************************************)
(* The state machine of concurrent generation requests: two callers, each  *)
(* with one request at a time, their steps interleaved in any order.  A    *)
(* caller in external mode waits in chain.invoke for its own reply.  All   *)
(* a request reads outside its arguments is os.environ.                    *)
(***************************************************************************)
Sessions == {1, 2}

IdleSession ==
    [request |-> NoRequest, pc |-> "idle", calls |-> <<>>, reply |-> NoRet, result |-> NoRet]

ConcurrentRequests ==
    {r \in Requests :
        /\ Len(r.tech_stack) <= 1
        /\ r.main_files = <<>>
        /\ r.tech_stack /= <<<<"Python">>>>}

\* a request started: template mode returns at once, external mode returns
\* None at once without a client and else waits in chain.invoke
Started(r) ==
    IF r.mode = "template"
    THEN [request |-> r, pc |-> "done", calls |-> <<>>, reply |-> NoRet,
          result |-> Returned(TemplateDoc(r))]
    ELSE LET llm == get_llm(r.provider)
         IN  IF ~Truthy(llm)
             THEN [request |-> r, pc |-> "done", calls |-> <<>>, reply |-> NoRet,
                   result |-> Returned(None)]
             ELSE [request |-> r, pc |-> "waiting",
                   calls |-> <<[llm |-> llm,
                                instruction |-> Instruction(r.project_name, r.tech_stack,
                                    r.main_files, r.architecture_notes)]>>,
                   reply |-> NoRet, result |-> NoRet]

\* an answer handed to every caller that waits (a chain shared by the callers)
Answered_shared(ss, s, answer) ==
    [t \in DOMAIN ss |->
        IF t = s THEN [ss[t] EXCEPT !.pc = "done", !.reply = answer, !.result = answer]
        ELSE IF ss[t].pc = "waiting" THEN [ss[t] EXCEPT !.pc = "done", !.result = answer]
        ELSE ss[t]]

\* chain.invoke of caller s returns or raises: its own call ends with the answer
Answered(ss, s, answer) ==
    [ss EXCEPT ![s] = [@ EXCEPT !.pc = "done", !.reply = answer, !.result = answer]]

ConcInit ==
    /\ NoDocument
    /\ env = [OPENAI_API_KEY |-> PyStr(<<"sk">>), ANTHROPIC_API_KEY |-> None]
    /\ GenIdle
    /\ TplIdle
    /\ KitIdle
    /\ FsIdle
    /\ sessions = [s \in Sessions |-> IdleSession]

SessionGenerate(s) ==
    /\ sessions[s].pc = "idle"
    /\ \E r \in ConcurrentRequests : sessions' = [sessions EXCEPT ![s] = Started(r)]
    /\ UNCHANGED <<docVars, genVars, tplVars, kitVars, fsVars>>

SessionCollaboratorReplies ==
    \E s \in Sessions :
        /\ sessions[s].pc = "waiting"
        /\ \E text \in Replies : sessions' = Answered(sessions, s, Returned(text))
        /\ UNCHANGED <<docVars, genVars, tplVars, kitVars, fsVars>>

SessionCollaboratorFails ==
    \E s \in Sessions :
        /\ sessions[s].pc = "waiting"
        /\ sessions' = Answered(sessions, s, Raised("Exception"))
        /\ UNCHANGED <<docVars, genVars, tplVars, kitVars, fsVars>>

SessionNextInteraction ==
    \E s \in Sessions :
        /\ sessions[s].pc = "done"
        /\ sessions' = [sessions EXCEPT ![s] = IdleSession]
        /\ UNCHANGED <<docVars, genVars, tplVars, kitVars, fsVars>>

ConcNext ==
    \/ \E s \in Sessions : SessionGenerate(s)
    \/ SessionCollaboratorReplies
    \/ SessionCollaboratorFails
    \/ SessionNextInteraction

ConcSpec == ConcInit /\ [][ConcNext]_vars

(***************************************************************************)
(* Properties of parse_frontmatter                                         *)
(***************************************************************************)
Parsed == op = "parse_frontmatter"
Annotated == op = "get_file_annotations"

\* the document was written as a header block (opening marker, a mapping of at
\* least one entry, closing marker) followed by a body
WrittenWithHeader(d) == d.opening /\ d.closing /\ d.extra = <<>> /\ d.entries /= <<>>

\* the header the document was written with
WrittenHeader(d) ==
    LET n == Len(d.entries)
        at(k) == CHOOSE i \in 1..n : d.entries[i].key = k
    IN  PyDict([k \in {d.entries[i].key : i \in 1..n} |-> d.entries[at(k)].val])

\* the marker occurs in s at some 0-based position >= start
MarkerFrom(s, start) ==
    \E i \in start..(Len(s) - 3) : s[i + 1] = "-" /\ s[i + 2] = "-" /\ s[i + 3] = "-"

\* the text begins with the marker
MarkerFirst(s) == Len(s) >= 3 /\ s[1] = "-" /\ s[2] = "-" /\ s[3] = "-"

RoundTrip ==
    ret = Returned([fm |-> WrittenHeader(doc), body |-> Strip(BodyText(doc))])

\* C1 as stated: parsing a document written as a valid header block and a body
\* returns exactly the written header (unrecognized keys included) and the
\* body trimmed of leading and trailing whitespace.
C1_RoundTripAnyHeader == (Parsed /\ WrittenWithHeader(doc)) => RoundTrip

\* C1, amended: the same round trip, for a header block whose text between the
\* markers holds no three-dash sequence.
C1_RoundTrip ==
    (Parsed /\ WrittenWithHeader(doc) /\ ~MarkerFrom(HeaderText(doc), 0)) => RoundTrip

C1_Witness ==
    /\ Parsed /\ WrittenWithHeader(doc) /\ ~MarkerFrom(HeaderText(doc), 0)
    /\ Len(doc.entries) = 4
    /\ doc.bodyLines = <<<<"x">>, MARKER>>
    /\ ret.value.body = <<"x", NL, "-", "-", "-">>
    /\ "other" \in DOMAIN ret.value.fm.v

\* C2: a text that does not begin with the marker, or begins with it and holds
\* no later occurrence of it, parses to (absent header, the text unchanged).
C2_NoHeaderUnchanged ==
    (Parsed /\ (~MarkerFirst(content) \/ ~MarkerFrom(content, 3)))
        => ret = Returned([fm |-> None, body |-> content])

C2_Witness ==
    /\ Parsed
    /\ MarkerFirst(content) /\ ~MarkerFrom(content, 3)
    /\ doc.entries /= <<>>
    /\ ret = Returned([fm |-> None, body |-> content])

\* the text between the opening marker and the next marker, trimmed
Between(s) == Strip(Slice(s, 3, Find(s, MARKER, 3)))

\* the text has both markers and the YAML between them does not parse
Unparsable(s) ==
    /\ StartsWith(s, MARKER)
    /\ MarkerFrom(s, 3)
    /\ yaml_safe_load(Between(s)).raised

C4_HeaderIsMappingOrAbsent ==
    (Parsed /\ ~ret.raised) => ret.value.fm.kind \in {"none", "map"}

(***************************************************************************)
(* Properties of get_file_annotations                                      *)
(***************************************************************************)
\* the annotations of the recognized keys among `keys`, in the fixed order
RECURSIVE AnnotationsOf(_, _, _)
AnnotationsOf(fm, keys, i) ==
    IF i > Len(RecognizedKeys) THEN <<>>
    ELSE (IF RecognizedKeys[i] \in keys
          THEN <<[field |-> RecognizedKeys[i], value |-> fm.v[RecognizedKeys[i]],
                  explanation |-> Explanation(RecognizedKeys[i])]>>
          ELSE <<>>) \o AnnotationsOf(fm, keys, i + 1)

\* what the claim expects for a parsed header: the annotations of its keys,
\* and nothing when there is no header or it has no keys
ExpectedAnnotations(fm) ==
    IF fm.kind = "map" THEN AnnotationsOf(fm, DOMAIN fm.v, 1) ELSE <<>>

\* C5: for any document get_file_annotations returns one annotation per
\* recognized key present in the parsed header, in the order description,
\* globs, alwaysApply, with the header's value and the fixed explanation, and
\* an empty sequence when there is no header.
C5_AnnotationsOfPresentKeys ==
    Annotated =>
        /\ ~ret.raised
        /\ ret.value = ExpectedAnnotations(parse_frontmatter(content).value.fm)

\* C6: get_file_annotations never raises, whatever parse_frontmatter returned.
C6_AnnotationNeverRaises == Annotated => ~ret.raised

(***************************************************************************)
(* Properties of the external generation (llm.py)                          *)
(***************************************************************************)
KnownProviders == {"openai", "anthropic"}

\* the credential variable of a known provider
Credential(p) == IF p = "openai" THEN env.OPENAI_API_KEY ELSE env.ANTHROPIC_API_KEY

\* the variable is unset, or set to the empty string
Missing(v) == v = None \/ v = PyStr(<<>>)

External == request.mode = "external"

\* the client class of a known provider
ClientClass(p) == IF p = "openai" THEN "ChatOpenAI" ELSE "ChatAnthropic"

\* C7: an external-mode request for a provider whose credential is unset or
\* empty ends with the result None, no instruction sent to any collaborator
\* (the other provider's included, whatever its credential).
C7_UnavailableWithoutCall ==
    (External /\ request.provider \in KnownProviders
              /\ Missing(Credential(request.provider)))
        => /\ pc = "done"
           /\ syncRet = Returned(None)
           /\ calls = <<>>
           /\ reply = NoRet

C7_Witness ==
    /\ External /\ request.provider = "openai"
    /\ env.OPENAI_API_KEY = PyStr(<<>>)
    /\ env.ANTHROPIC_API_KEY = PyStr(<<"sk">>)
    /\ pc = "done"
    /\ syncRet = Returned(None)
    /\ calls = <<>>

\* external-mode generation failed: it raised, was unavailable, or replied
\* with an empty text
GenerationFailed ==
    syncRet.raised \/ syncRet.value = None \/ syncRet.value = PyStr(<<>>)

\* C8: every failure of external-mode generation (an exception of the
\* collaborator, a missing credential, an empty reply) ends the interaction
\* with the template-mode document of the same request.
C8_FailureFallsBackToTemplate ==
    (External /\ pc = "done" /\ GenerationFailed)
        => structureDoc = PyStr(generate_template_based_structure(
               request.project_name, request.tech_stack, request.main_files,
               request.architecture_notes))

C8_Witness ==
    /\ External /\ pc = "done"
    /\ syncRet = Returned(PyStr(<<>>))
    /\ request.tech_stack = <<<<"Python">>, <<"Go">>>>
    /\ structureDoc.kind = "str"
    /\ StartsWith(structureDoc.v, MARKER)

\* the request's provider has a usable credential
Available == request.provider \in KnownProviders /\ ~Missing(Credential(request.provider))

\* C9: an external-mode request that reaches the collaborator sends exactly
\* one instruction, built from the request's four fields, to the provider the
\* caller named and to no other; no request sends more than one, a failure
\* included; and the result is the collaborator's reply text, unmodified.
C9_OneInstructionOneProvider ==
    External =>
        /\ Len(calls) <= 1
        /\ Available =>
            /\ Len(calls) = 1
            /\ calls[1].llm.class = ClientClass(request.provider)
            /\ calls[1].llm.api_key = Credential(request.provider)
            /\ calls[1].instruction.template = "PROJECT_STRUCTURE_PROMPT"
            /\ calls[1].instruction.project_name = request.project_name
            /\ calls[1].instruction.tech_stack = request.tech_stack
            /\ calls[1].instruction.main_files = request.main_files
            /\ calls[1].instruction.architecture_notes = request.architecture_notes
            /\ pc = "done" => syncRet = reply

C9_Witness ==
    /\ External /\ Available /\ request.provider = "anthropic"
    /\ pc = "done"
    /\ Len(calls) = 1
    /\ reply = Returned(PyStr(<<"# Generated">>))
    /\ syncRet = Returned(PyStr(<<"# Generated">>))

\* what C10 says of get_llm: unavailable exactly for the providers reported
\* false, and for every provider that is not one of the two
LlmAgreesWithReport ==
    /\ (get_llm("openai") = None) <=> ~keysReport.openai
    /\ (get_llm("anthropic") = None) <=> ~keysReport.anthropic
    /\ \A p \in Providers \ KnownProviders : get_llm(p) = None

\* C10 as stated: check_api_keys reports a provider true exactly when its
\* credential variable is present, and get_llm agrees with the report.
C10_ReportsPresence ==
    keysReport /= None =>
        /\ keysReport.openai <=> env.OPENAI_API_KEY /= None
        /\ keysReport.anthropic <=> env.ANTHROPIC_API_KEY /= None
        /\ LlmAgreesWithReport

\* C10, amended: check_api_keys reports a provider true exactly when its
\* credential variable is set to a non-empty value; get_llm is unavailable
\* exactly for the providers reported false and for every other identity;
\* and the report is computed with no instruction sent to a collaborator.
C10_ReportsUsableCredential ==
    /\ keysReport /= None =>
        /\ keysReport.openai <=> ~Missing(env.OPENAI_API_KEY)
        /\ keysReport.anthropic <=> ~Missing(env.ANTHROPIC_API_KEY)
        /\ LlmAgreesWithReport
    /\ pc /= "waiting" => Len(calls) = (IF External /\ Available THEN 1 ELSE 0)

C10_Witness ==
    /\ keysReport = [openai |-> FALSE, anthropic |-> TRUE]
    /\ env.OPENAI_API_KEY = PyStr(<<>>)
    /\ get_llm("openai") = None
    /\ get_llm("anthropic") /= None
    /\ pc = "idle" /\ calls = <<>>

(***************************************************************************)
(* Properties of the template-mode generation                              *)
(***************************************************************************)
Headings ==
    {"## Overview", "## Directory Layout", "## Architecture", "## Key Technologies",
     "## Running the Application", "## Environment Variables"}

\* what stands in text between a heading and the heading after it
SectionOf(text, heading) ==
    LET starts == {i \in 1..Len(text) : text[i] = heading}
    IN  IF starts = {} THEN <<>>
        ELSE LET i == Min(starts)
                 nexts == {j \in (i + 1)..Len(text) : text[j] \in Headings}
                 j == IF nexts = {} THEN Len(text) + 1 ELSE Min(nexts)
             IN  SubSeq(text, i + 1, j - 1)

\* a section whose content is body: a blank line, the content, a blank line
Paragraph(body) == <<NL, NL>> \o body \o <<NL, NL>>

Called == tArgs /= None

\* C11: a call of generate_template_based_structure with the arguments of
\* the first call returns the text the first call returned, whatever calls
\* were made in between
C11_TemplateDeterministic ==
    (Called /\ tArgs = tFirst.args) => tRet = PyStr(tFirst.text)

C11_Witness ==
    /\ Called
    /\ tFirst.between
    /\ tArgs = tFirst.args
    /\ tArgs.tech_stack /= <<>>
    /\ tRet = PyStr(tFirst.text)

\* C12: with an empty tech_stack the Key Technologies section is the bullet
\* "- Not specified" and the Overview sentence is "A project built with
\* various technologies."
C12_EmptyTechStackFallback ==
    (Called /\ tArgs.tech_stack = <<>>) =>
        /\ SectionOf(tRet.v, "## Key Technologies")
               = Paragraph(<<"-", SP, "Not specified">>)
        /\ SectionOf(tRet.v, "## Overview")
               = Paragraph(<<"A project built with", SP, "various technologies", ".">>)

C12_Witness ==
    /\ Called
    /\ tArgs.tech_stack = <<>>
    /\ Find(tRet.v, <<"-", SP, "Not specified">>, 0) /= -1

RECURSIVE CommaSeparated(_)
\* the entries, each but the first after a comma and a space
CommaSeparated(entries) ==
    IF Len(entries) = 1 THEN entries[1]
    ELSE CommaSeparated(SubSeq(entries, 1, Len(entries) - 1))
             \o <<",", SP>> \o entries[Len(entries)]

\* C13: with a non-empty tech_stack the Key Technologies section has one
\* line "- **<entry>**" per entry, in the order of tech_stack, and the
\* Overview sentence lists the same entries, in the same order, with commas
C13_OneBulletPerTechnology ==
    (Called /\ tArgs.tech_stack /= <<>>) =>
        LET bullets == SplitLines(SectionOf(tRet.v, "## Key Technologies"))
        IN  /\ Len(bullets) = Len(tArgs.tech_stack)
            /\ \A i \in 1..Len(bullets) :
                   bullets[i] = <<"-", SP, "**">> \o tArgs.tech_stack[i] \o <<"**">>
            /\ SectionOf(tRet.v, "## Overview")
                   = Paragraph(<<"A project built with", SP>>
                                   \o CommaSeparated(tArgs.tech_stack) \o <<".">>)

C13_Witness ==
    /\ Called
    /\ tArgs.tech_stack = <<<<"Python">>, <<"Go">>>>
    /\ SplitLines(SectionOf(tRet.v, "## Key Technologies"))
           = << <<"-", SP, "**", "Python", "**">>, <<"-", SP, "**", "Go", "**">> >>

\* C14: the Directory Layout section is a code block holding main_files as
\* it was given, or the two-line default tree when main_files is empty; the
\* Architecture section holds architecture_notes as given, or the default
\* sentence when architecture_notes is empty
C14_VerbatimOrFallback ==
    Called =>
        /\ SectionOf(tRet.v, "## Directory Layout")
               = Paragraph(<<FENCE, NL>>
                     \o (IF tArgs.main_files /= <<>> THEN tArgs.main_files
                         ELSE <<"src/", NL, "|__ main.py", NL, "|__ utils.py">>)
                     \o <<NL, FENCE>>)
        /\ SectionOf(tRet.v, "## Architecture")
               = Paragraph(IF tArgs.architecture_notes /= <<>>
                           THEN tArgs.architecture_notes
                           ELSE <<"Describe your architecture here.">>)

C14_Witness ==
    /\ Called
    /\ tArgs.main_files /= <<>>
    /\ tArgs.architecture_notes = <<>>
    /\ Find(tRet.v, <<FENCE, NL>> \o tArgs.main_files \o <<NL, FENCE>>, 0) /= -1

\* C15: a call with an empty project_name returns no document, while a call
\* with a project_name and the three other fields empty returns one that
\* holds the three fallbacks
C15_ProjectNameMandatory ==
    Called =>
        /\ tArgs.project_name = <<>> => tRet.kind /= "str"
        /\ (/\ tArgs.project_name /= <<>>
            /\ tArgs.tech_stack = <<>>
            /\ tArgs.main_files = <<>>
            /\ tArgs.architecture_notes = <<>>) =>
               /\ tRet.kind = "str"
               /\ Find(tRet.v, <<"-", SP, "Not specified">>, 0) /= -1
               /\ Find(tRet.v, <<"src/", NL, "|__ main.py", NL, "|__ utils.py">>, 0) /= -1
               /\ Find(tRet.v, <<"Describe your architecture here.">>, 0) /= -1

(***************************************************************************)
(* Properties of the starter kit archive                                   *)
(***************************************************************************)
Generated == archive /= None

RulesDir == <<"cursor-starter-kit", "/", ".cursor", "/", "rules", "/">>

CommandsDir == <<"cursor-starter-kit", "/", ".cursor", "/", "commands", "/">>

\* the entries of blob whose path is a file name under dir
EntriesUnder(blob, dir) ==
    {i \in 1..Len(blob.entries) :
        /\ StartsWith(blob.entries[i].filename, dir)
        /\ "/" \notin {blob.entries[i].filename[k] :
                          k \in (Len(dir) + 1)..Len(blob.entries[i].filename)}}

\* C16: the archive has 17 entries, no two with the same path: 5 files
\* under cursor-starter-kit/.cursor/rules/, 10 under
\* cursor-starter-kit/.cursor/commands/, and AGENTS.md and README.md under
\* cursor-starter-kit/; no entry is empty
C16_KitLayout ==
    Generated =>
        LET e == archive.entries
        IN  /\ Len(e) = 17
            /\ \A i, j \in 1..Len(e) : e[i].filename = e[j].filename => i = j
            /\ Cardinality(EntriesUnder(archive, RulesDir)) = 5
            /\ Cardinality(EntriesUnder(archive, CommandsDir)) = 10
            /\ \E i \in 1..Len(e) :
                   e[i].filename = <<"cursor-starter-kit", "/", "AGENTS", ".md">>
            /\ \E i \in 1..Len(e) :
                   e[i].filename = <<"cursor-starter-kit", "/", "README", ".md">>
            /\ \A i \in 1..Len(e) : e[i].data /= <<>>

C16_Witness ==
    /\ Generated
    /\ Len(archive.entries) = 17
    /\ archive.entries[1].filename = RulesDir \o <<"cursor-rules", ".md">>
    /\ archive.entries[17].data = STARTER_KIT_README

\* the paths of an archive, each with its decompressed content
PathContents(blob) ==
    {<<blob.entries[i].filename, blob.entries[i].data>> : i \in 1..Len(blob.entries)}

Paths(blob) == {blob.entries[i].filename : i \in 1..Len(blob.entries)}

\* C17: every archive has the paths of the first archive and, under each
\* path, the content the first archive has there, whatever operations ran
\* and however much time passed between the two invocations
C17_SamePathsAndContents ==
    Generated =>
        /\ Paths(archive) = Paths(firstArchive)
        /\ PathContents(archive) = PathContents(firstArchive)

C17_Witness ==
    /\ Generated
    /\ shown /= None
    /\ archive.entries[1].date_time > firstArchive.entries[1].date_time
    /\ PathContents(archive) = PathContents(firstArchive)

\* C18: every archive is equal to the first archive byte for byte, the
\* modification times of the entries included
C18_ByteIdentical ==
    Generated => archive = firstArchive

\* C19: every entry under the commands directory is named <slug>.md after a
\* key of GENERIC_COMMANDS and holds that record's content; there are ten
C19_CommandsCopiedVerbatim ==
    Generated =>
        /\ Cardinality(EntriesUnder(archive, CommandsDir)) = 10
        /\ \A i \in EntriesUnder(archive, CommandsDir) :
               LET filename == SubSeq(archive.entries[i].filename, Len(CommandsDir) + 1,
                                      Len(archive.entries[i].filename))
               IN  /\ Len(filename) = 2
                   /\ filename[2] = ".md"
                   /\ HasKey(catalog.GENERIC_COMMANDS, filename[1])
                   /\ archive.entries[i].data
                          = DictGet(catalog.GENERIC_COMMANDS, filename[1]).content

C19_Witness ==
    /\ Generated
    /\ \E i \in 1..Len(archive.entries) :
           /\ archive.entries[i].filename = CommandsDir \o <<"debug", ".md">>
           /\ archive.entries[i].data
                  = <<"# Debug Assistant", NL, NL, "## Overview", NL,
                      "instructions of Debug Assistant", NL>>

(***************************************************************************)
(* Properties of load_example_files                                        *)
(***************************************************************************)
Loaded == examples /= NoRet

\* C20: load_example_files raises nothing and returns a mapping for rules
\* and one for commands; the mapping of a category whose directory is
\* missing is empty, whether the other directory exists or not
C20_MissingDirectoryIsEmpty ==
    Loaded =>
        /\ ~examples.raised
        /\ DOMAIN examples.value = {"rules", "commands"}
        /\ ~fs.rules.exists => examples.value.rules = <<>>
        /\ ~fs.commands.exists => examples.value.commands = <<>>

C20_Witness ==
    /\ Loaded
    /\ ~fs.rules.exists
    /\ fs.commands.exists
    /\ ~examples.raised
    /\ examples.value.rules = <<>>
    /\ DOMAIN examples.value.commands = {<<"a", ".md">>, <<"b", ".md">>}

(***************************************************************************)
(* Properties of the catalog and of the kit as it is shown                 *)
(***************************************************************************)
\* C21: parse_frontmatter applied to a command document of the catalog (a
\* generic command's content or a command file of the kit) returns no
\* header and the document's text, unchanged, as the body
C21_CommandsCarryNoHeader ==
    (op = "parse_frontmatter") =>
        /\ \E d \in CommandDocuments : d.source = doc.source /\ d.key = doc.key /\ d.text = content
        /\ ret = Returned([fm |-> None, body |-> content])

C21_Witness ==
    /\ op = "parse_frontmatter"
    /\ doc.source = "STARTER_KIT_COMMANDS"
    /\ doc.key = <<"commit", ".md">>
    /\ ret = Returned([fm |-> None, body |-> content])
    /\ content /= <<>>

\* the slugs of the command files of an archive
ArchivedSlugs(blob) ==
    {blob.entries[i].filename[Len(CommandsDir) + 1] : i \in EntriesUnder(blob, CommandsDir)}

\* C29: the commands the commands tab lists as included in the kit are the
\* commands of the archive it offers: every listed key <slug> has an entry
\* .cursor/commands/<slug>.md and every such entry is listed
C29_AnnouncedCommandsAreArchived ==
    (Generated /\ shown /= None /\ shown.getter = "tab_commands") =>
        {shown.value[i] : i \in 1..Len(shown.value)} = ArchivedSlugs(archive)

\* C30: the kit get_starter_kit_contents returns and the archive hold the
\* same documents: every rule and command file shown is exactly one entry
\* with that name and content, AGENTS.md and README.md are the two entries
\* under the root, and the archive has no other entry
C30_ShownKitIsArchivedKit ==
    (Generated /\ shown /= None /\ shown.getter = "get_starter_kit_contents") =>
        LET kit == shown.value
            e == archive.entries
            expected ==
                {<<RulesDir \o kit.rules[i].key, kit.rules[i].value>> : i \in 1..Len(kit.rules)}
                \cup {<<CommandsDir \o kit.commands[i].key, kit.commands[i].value>> :
                         i \in 1..Len(kit.commands)}
                \cup {<<KitRoot \o <<"AGENTS", ".md">>, kit.agents_md>>,
                      <<KitRoot \o <<"README", ".md">>, kit.readme>>}
        IN  /\ PathContents(archive) = expected
            /\ Len(e) = Len(kit.rules) + Len(kit.commands) + 2
            /\ \A i, j \in 1..Len(e) : e[i].filename = e[j].filename => i = j

C30_Witness ==
    /\ Generated
    /\ shown /= None
    /\ shown.getter = "get_starter_kit_contents"
    /\ Len(shown.value.rules) = 5
    /\ Len(shown.value.commands) = 10
    /\ Cardinality(PathContents(archive)) = 17

(***************************************************************************)
(* Properties of parse_frontmatter: markers in the body                    *)
(***************************************************************************)
\* the text up to the end of the first marker after the opening one
UpToSecondMarker(s) == SubSeq(s, 1, Find(s, MARKER, 3) + 3)

\* the text after that marker
AfterSecondMarker(s) == Slice(s, Find(s, MARKER, 3) + 3, Len(s))

\* C24: for a text that begins with the marker and holds another one, the
\* header returned is the header of the text cut after that next marker,
\* and all that follows it, later markers included, is left to the body
C24_OnlyFirstTwoMarkers ==
    (Parsed /\ MarkerFirst(content) /\ MarkerFrom(content, 3)) =>
        /\ ~ret.raised
        /\ ret.value.fm = parse_frontmatter(UpToSecondMarker(content)).value.fm
        /\ \/ ret.value.body = Strip(AfterSecondMarker(content))
           \/ ret.value.fm = None /\ ret.value.body = content

C24_Witness ==
    /\ Parsed
    /\ doc.opening /\ doc.closing /\ doc.extra = <<>> /\ Len(doc.entries) = 1
    /\ doc.bodyLines = <<MARKER, MARKER>>
    /\ ret.value.fm.kind = "map"
    /\ ret.value.body = <<"-", "-", "-", NL, "-", "-", "-">>

\* parse_frontmatter applied to the body it returned gives no header and
\* that body
BodyIsFixedPoint ==
    parse_frontmatter(ret.value.body) = Returned([fm |-> None, body |-> ret.value.body])

C26_AbsentHeaderKeepsText ==
    (Parsed /\ ~ret.raised /\ ret.value.fm = None) => ret.value.body = content

(***************************************************************************)
(* Properties of the template document read back by parse_frontmatter      *)
(***************************************************************************)
\* C27: for a non-empty project_name, parse_frontmatter reads the template
\* document as a header of description (holding project_name), globs = []
\* and alwaysApply = true, and a body that starts at the title line
C27_TemplateHeaderReadsBack ==
    (Called /\ tArgs.project_name /= <<>>) =>
        LET parsed == parse_frontmatter(tRet.v)
        IN  /\ ~parsed.raised
            /\ parsed.value.fm.kind = "map"
            /\ DOMAIN parsed.value.fm.v = {"description", "globs", "alwaysApply"}
            /\ parsed.value.fm.v["description"].kind = "str"
            /\ Find(parsed.value.fm.v["description"].v, tArgs.project_name, 0) /= -1
            /\ parsed.value.fm.v["globs"] = PyList(<<>>)
            /\ parsed.value.fm.v["alwaysApply"] = PyBool(TRUE)
            /\ StartsWith(parsed.value.body,
                          <<"# Project Structure", COLON>> \o tArgs.project_name)

(***************************************************************************)
(* Termination of the generation                                           *)
(***************************************************************************)
\* C28: a generation request waits only in external mode with a credential
\* present: template mode and a missing credential end the request in the
\* step that starts it.  A waiting request ends only by the collaborator's
\* reply or failure (no timeout, no cancellation), and it does end when
\* the collaborator answers
C28_ReturnsWhenCollaboratorAnswers ==
    /\ [][(pc = "idle" /\ pc' /= "idle") =>
              /\ (pc' = "waiting") <=> (External' /\ Available')
              /\ (pc' /= "waiting") => pc' = "done"]_vars
    /\ [][(pc = "waiting") =>
              \/ pc' = "waiting" /\ reply' = reply
              \/ pc' = "done" /\ reply' /= NoRet]_vars
    /\ (pc = "waiting") ~> (pc = "done" /\ reply /= NoRet)

C28_Witness ==
    /\ External /\ Available
    /\ pc = "done"
    /\ reply = Raised("Exception")
    /\ syncRet = Raised("Exception")
    /\ request.provider = "openai"

(***************************************************************************)
(* The catalog under the operations of the module                          *)
(***************************************************************************)
\* C22: no operation of the module (parsing, annotation, template and
\* external generation, packaging, the getters) changes the catalog: the
\* generic commands and the documents of the starter kit stay as loaded
C22_CatalogReadOnly == [][catalog' = catalog]_vars

C22_Witness ==
    /\ catalog = Catalog
    /\ op = "get_file_annotations"
    /\ tArgs /= None
    /\ Generated
    /\ shown /= None
    /\ shown.getter = "get_generic_command"
    /\ shown.name = "debug"
    /\ External
    /\ pc = "done"
    /\ reply = Returned(PyStr(<<"# Generated">>))

(***************************************************************************)
(* Concurrent generation requests                                          *)
(***************************************************************************)
\* what a finished request returns, by its own fields and its own reply
OwnResult(sess) ==
    IF sess.request.mode = "template"
    THEN Returned(PyStr(generate_template_based_structure(
             sess.request.project_name, sess.request.tech_stack,
             sess.request.main_files, sess.request.architecture_notes)))
    ELSE IF sess.calls = <<>> THEN Returned(None)
    ELSE sess.reply

\* C23: with two requests interleaved in any order, a finished request has
\* returned what its own fields and its own collaborator reply determine, a
\* waiting request has sent the instruction of its own fields, and a request
\* that waits for its collaborator never keeps the other caller from
\* starting a request
C23_RequestsShareNoState ==
    \A s \in Sessions :
        /\ sessions[s].pc = "done" => sessions[s].result = OwnResult(sessions[s])
        /\ sessions[s].pc = "waiting" =>
               /\ sessions[s].result = NoRet
               /\ sessions[s].calls[1].instruction
                      = Instruction(sessions[s].request.project_name,
                            sessions[s].request.tech_stack, sessions[s].request.main_files,
                            sessions[s].request.architecture_notes)
        /\ \A t \in Sessions \ {s} :
               (sessions[s].pc = "waiting" /\ sessions[t].pc = "idle")
                   => ENABLED SessionGenerate(t)

C23_Witness ==
    /\ sessions /= <<>>
    /\ sessions[1].pc = "waiting"
    /\ sessions[1].request.architecture_notes = <<>>
    /\ sessions[2].pc = "done"
    /\ sessions[2].request.mode = "external"
    /\ sessions[2].request.architecture_notes = <<"Monolith">>
    /\ sessions[2].result = Returned(PyStr(<<"# Generated">>))

====
